---- MODULE Spec2Model ----
(***************************************************************************)
(* Station Rotation (src/app.py): the ProductionRotation pairing engine,   *)
(* the schedule builder, the date-keyed session state and the submit       *)
(* branch of main.                                                         *)
(*                                                                         *)
(* Python values are modelled as follows.                                  *)
(*   list            a sequence                                            *)
(*   str             a TLA+ string; f"{a}-{b}" is built with ToString and  *)
(*                   \o, and read back character by character              *)
(*   dict            a function whose DOMAIN is the set of keys present    *)
(*                   (the rotation object's dicts, session_state), or a    *)
(*                   sequence of <<key, value>> entries in insertion order *)
(*                   where the order is observable (schedule_data)         *)
(*   session_state   a function from every key the program uses to        *)
(*                   <<>> (key absent) or <<value>> (key present)          *)
(***************************************************************************)
EXTENDS Integers, Sequences, FiniteSets, TLC

VARIABLES
    rotation,         \* the ProductionRotation object: its two dicts
    installed,        \* per dict and line, the list last handed to the setter, as the caller wrote it
    ret,              \* what the most recent call returned
    stations_to_pair, \* the argument handed to mirror_pair
    now,              \* the wall clock: days elapsed since FirstDay
    session_state,    \* st.session_state
    pc,               \* where the last run of main ended
    schedule_log      \* the generate_schedule result before ret, when it was made
                      \* with the same configuration by the run before

vars == <<rotation, installed, ret, stations_to_pair, now, session_state, pc, schedule_log>>

-----------------------------------------------------------------------------
(* Configuration constants, src/app.py lines 7-8.                          *)

LINES == <<"B", "C", "L", "M", "N", "O">>

NumStations == 20

STATIONS == [i \in 1..NumStations |-> i]

-----------------------------------------------------------------------------
(* Bounds of the model.                                                    *)

\* longest list handed to mirror_pair
MaxLen == 4

\* number of keys stored in one rotation object by set_non_operational / set_fixed
MaxCalls == 2

\* last day the clock reaches
MaxNow == 1

\* number of widget keys stored in session_state
MaxWidgets == 2

-----------------------------------------------------------------------------
(* Python built-ins.                                                       *)

Range(seq) == {seq[i] : i \in DOMAIN seq}

RECURSIVE merge(_, _)
merge(a, b) ==
    IF a = <<>> THEN b
    ELSE IF b = <<>> THEN a
    ELSE IF a[1] <= b[1] THEN <<a[1]>> \o merge(Tail(a), b)
    ELSE <<b[1]>> \o merge(a, Tail(b))

\* sorted(list): ascending, duplicates kept
RECURSIVE sorted(_)
sorted(seq) ==
    IF Len(seq) <= 1 THEN seq
    ELSE LET half == Len(seq) \div 2
         IN  merge(sorted(SubSeq(seq, 1, half)),
                   sorted(SubSeq(seq, half + 1, Len(seq))))

RECURSIVE enumerate(_)
enumerate(S) ==
    IF S = {} THEN <<>>
    ELSE LET x == CHOOSE y \in S : TRUE
         IN  <<x>> \o enumerate(S \ {x})

\* list(set(...)): the distinct elements, in an order the caller must not rely on
\* (an enumeration of the set, reversed)
list_of_set(S) ==
    LET e == enumerate(S)
    IN  [i \in 1..Len(e) |-> e[Len(e) + 1 - i]]

\* a list stored as the caller wrote it: neither deduplicated nor sorted
sorted_unique_as_given(seq) == seq

\* sorted(list(set(stations)))
sorted_unique(seq) == sorted(list_of_set(Range(seq)))

\* f"{a}-{b}"
format_pair(a, b) == ToString(a) \o "-" \o ToString(b)

\* dict.get(key, [])
dict_get(d, key) == IF key \in DOMAIN d THEN d[key] ELSE <<>>

\* d[key] = value
dict_set(d, key, value) ==
    [k \in (DOMAIN d) \cup {key} |-> IF k = key THEN value ELSE d[k]]

empty_dict == [k \in {} |-> <<>>]

-----------------------------------------------------------------------------
(* class ProductionRotation.  self is the record                           *)
(* [non_operational_stations, fixed_stations]; self.lines and              *)
(* self.stations are LINES and STATIONS and are never reassigned.          *)

new_rotation ==
    [non_operational_stations |-> empty_dict, fixed_stations |-> empty_dict]

set_non_operational(self, line, stations) ==
    [self EXCEPT !.non_operational_stations =
        dict_set(@, line, sorted_unique(stations))]

set_fixed(self, line, stations) ==
    [self EXCEPT !.fixed_stations = dict_set(@, line, sorted_unique(stations))]

\* the filter of line 34 inverted: the stations that are down
get_operational_stations_keeps_down(self, line) ==
    LET temp_non_operational == dict_get(self.non_operational_stations, line)
        down == Range(temp_non_operational)
        Down(s) == s \in down
    IN  sorted(SelectSeq(STATIONS, Down))

get_operational_stations(self, line) ==
    LET temp_non_operational == dict_get(self.non_operational_stations, line)
        down == Range(temp_non_operational)
        Up(s) == s \notin down
    IN  sorted(SelectSeq(STATIONS, Up))

RECURSIVE mirror_loop(_, _, _, _)
mirror_loop(sorted_stations, n, i, pairs) ==
    IF i >= n \div 2 THEN pairs
    ELSE mirror_loop(sorted_stations, n, i + 1,
            Append(pairs, format_pair(sorted_stations[i + 1], sorted_stations[n - i])))

\* mirror_pair without the self-pair of the middle station
mirror_pair_drops_middle(stations) ==
    LET sorted_stations == sorted_unique(stations)
    IN  mirror_loop(sorted_stations, Len(sorted_stations), 0, <<>>)

mirror_pair(stations) ==
    LET sorted_stations == sorted_unique(stations)
        n == Len(sorted_stations)
        pairs == mirror_loop(sorted_stations, n, 0, <<>>)
        middle_index == n \div 2
    IN  IF n % 2 # 0
        THEN Append(pairs, format_pair(sorted_stations[middle_index + 1],
                                       sorted_stations[middle_index + 1]))
        ELSE pairs

\* the body of generate_pairs with its four accommodation choices open:
\* on which lines fixed stations count, whether a fixed station must be up,
\* whether the fixed stations leave the mirror pairing, and which block is first
generate_pairs_variant(self, line, any_line, must_be_up, leave_mirror, fixed_first) ==
    LET operational == get_operational_stations(self, line)
    IN  IF operational = <<>> THEN <<>>
        ELSE IF line = "C" \/ any_line
        THEN LET fixed_c_stations == dict_get(self.fixed_stations, line)
                 up == Range(operational)
                 IsUp(s) == s \in up \/ ~must_be_up
                 valid_fixed == SelectSeq(fixed_c_stations, IsUp)
                 fixed_pairs == [k \in 1..Len(valid_fixed) |->
                                    format_pair(valid_fixed[k], valid_fixed[k])]
                 fixed == Range(valid_fixed)
                 NotFixed(s) == s \notin fixed \/ ~leave_mirror
                 remaining_for_pairing == SelectSeq(operational, NotFixed)
             IN  IF fixed_first
                 THEN fixed_pairs \o mirror_pair(remaining_for_pairing)
                 ELSE mirror_pair(remaining_for_pairing) \o fixed_pairs
        ELSE mirror_pair(operational)

\* fixed stations are mirror-paired as well
generate_pairs_keeps_fixed(self, line) ==
    generate_pairs_variant(self, line, FALSE, TRUE, FALSE, TRUE)

\* the fixed self-pairs come after the mirror pairs
generate_pairs_fixed_last(self, line) ==
    generate_pairs_variant(self, line, FALSE, TRUE, TRUE, FALSE)

\* a fixed station is self-paired even when it is down
generate_pairs_down_fixed(self, line) ==
    generate_pairs_variant(self, line, FALSE, FALSE, TRUE, TRUE)

\* fixed stations are honoured on every line
generate_pairs_any_line(self, line) ==
    generate_pairs_variant(self, line, TRUE, TRUE, TRUE, TRUE)

generate_pairs(self, line) ==
    LET operational == get_operational_stations(self, line)
    IN  IF operational = <<>> THEN <<>>
        ELSE IF line = "C"
        THEN LET fixed_c_stations == dict_get(self.fixed_stations, line)
                 up == Range(operational)
                 IsUp(s) == s \in up
                 valid_fixed == SelectSeq(fixed_c_stations, IsUp)
                 fixed_pairs == [k \in 1..Len(valid_fixed) |->
                                    format_pair(valid_fixed[k], valid_fixed[k])]
                 fixed == Range(valid_fixed)
                 NotFixed(s) == s \notin fixed
                 remaining_for_pairing == SelectSeq(operational, NotFixed)
             IN  fixed_pairs \o mirror_pair(remaining_for_pairing)
        ELSE mirror_pair(operational)

-----------------------------------------------------------------------------
(* datetime.now().strftime(...).  The program reads the clock only        *)
(* through the calendar date, so the clock is modelled by its day: day 0   *)
(* is FirstDay, and the days that follow cross a month and a year end.     *)

FirstDay == [year |-> 2025, month |-> 12, day |-> 31]

is_leap(y) == (y % 4 = 0 /\ y % 100 # 0) \/ y % 400 = 0

days_in_month(y, m) ==
    IF m = 2 THEN (IF is_leap(y) THEN 29 ELSE 28)
    ELSE IF m \in {4, 6, 9, 11} THEN 30 ELSE 31

next_day(d) ==
    IF d.day < days_in_month(d.year, d.month) THEN [d EXCEPT !.day = @ + 1]
    ELSE IF d.month < 12 THEN [d EXCEPT !.month = @ + 1, !.day = 1]
    ELSE [year |-> d.year + 1, month |-> 1, day |-> 1]

RECURSIVE add_days(_, _)
add_days(d, k) == IF k = 0 THEN d ELSE add_days(next_day(d), k - 1)

\* datetime.now(): the calendar date of clock reading t
datetime_now(t) == add_days(FirstDay, t)

\* %m and %d: two digits, zero padded
pad2(k) == IF k < 10 THEN "0" \o ToString(k) ELSE ToString(k)

\* strftime("%m/%d/%Y")
strftime_mdY(d) == pad2(d.month) \o "/" \o pad2(d.day) \o "/" \o ToString(d.year)

\* strftime("%Y-%m-%d")
strftime_Ymd(d) == ToString(d.year) \o "-" \o pad2(d.month) \o "-" \o pad2(d.day)

-----------------------------------------------------------------------------
(* generate_schedule.  schedule_data keeps its insertion order.            *)

odict_keys(entries) == [i \in DOMAIN entries |-> entries[i][1]]

odict_has(entries, key) == \E i \in DOMAIN entries : entries[i][1] = key

odict_get(entries, key) ==
    entries[CHOOSE i \in DOMAIN entries : entries[i][1] = key][2]

\* schedule_data[key] = value
odict_set(entries, key, value) ==
    IF odict_has(entries, key)
    THEN [i \in DOMAIN entries |->
            IF entries[i][1] = key THEN <<key, value>> ELSE entries[i]]
    ELSE Append(entries, <<key, value>>)

\* the loop of generate_schedule leaving out a line that has no pairs
RECURSIVE schedule_loop_skips_empty(_, _, _)
schedule_loop_skips_empty(self, i, schedule_data) ==
    IF i > Len(LINES) THEN schedule_data
    ELSE schedule_loop_skips_empty(self, i + 1,
            IF generate_pairs(self, LINES[i]) = <<>> THEN schedule_data
            ELSE odict_set(schedule_data, LINES[i], generate_pairs(self, LINES[i])))

RECURSIVE schedule_loop(_, _, _)
schedule_loop(self, i, schedule_data) ==
    IF i > Len(LINES) THEN schedule_data
    ELSE schedule_loop(self, i + 1,
            odict_set(schedule_data, LINES[i], generate_pairs(self, LINES[i])))

generate_schedule(self, t) ==
    [date_str |-> strftime_mdY(datetime_now(t)),
     schedule_data |-> schedule_loop(self, 1, <<>>)]

-----------------------------------------------------------------------------
(* What a call returned.                                                   *)

no_return == [op |-> "none"]

returned_pairs(op, line, pairs) == [op |-> op, line |-> line, pairs |-> pairs]

nothing_installed == [down |-> empty_dict, fixed |-> empty_dict]

-----------------------------------------------------------------------------
(* SpecMirror: mirror_pair applied to every list of at most MaxLen         *)
(* stations drawn from MirrorStations (one- and two-digit identifiers).    *)

MirrorStations == {2, 9, 10, 20}

MirrorInputs == UNION {[1..k -> MirrorStations] : k \in 0..MaxLen}

InitMirror ==
    /\ stations_to_pair \in MirrorInputs
    /\ rotation = new_rotation
    /\ installed = nothing_installed
    /\ ret = no_return
    /\ now = 0
    /\ session_state = empty_dict
    /\ pc = "idle"
    /\ schedule_log = no_return

MirrorPair ==
    /\ ret = no_return
    /\ ret' = returned_pairs("mirror_pair", "", mirror_pair(stations_to_pair))
    /\ UNCHANGED <<rotation, installed, stations_to_pair, now, session_state, pc,
                   schedule_log>>

NextMirror == MirrorPair

SpecMirror == InitMirror /\ [][NextMirror]_vars

-----------------------------------------------------------------------------
(* SpecRotation: one ProductionRotation object driven through its public   *)
(* methods, any line, any order.  The lists handed to the setters are      *)
(* unsorted, repeat a station, name a station outside 1..20, share         *)
(* stations between the two dicts, leave an odd or an even number of       *)
(* stations up, or take every station down.  At most MaxCalls keys are     *)
(* stored in the object.                                                   *)

DownLists == { <<3, 21, 3>>, STATIONS }

FixedLists == { <<7>>, <<18, 3, 21, 18>> }

stored_keys(self) ==
    Cardinality(DOMAIN self.non_operational_stations)
        + Cardinality(DOMAIN self.fixed_stations)

InitRotation ==
    /\ rotation = new_rotation
    /\ installed = nothing_installed
    /\ ret = no_return
    /\ stations_to_pair = <<>>
    /\ now = 0
    /\ session_state = empty_dict
    /\ pc = "idle"
    /\ schedule_log = no_return

SetNonOperational ==
    \E i \in DOMAIN LINES, stations \in DownLists :
        /\ \/ LINES[i] \in DOMAIN rotation.non_operational_stations
           \/ stored_keys(rotation) < MaxCalls
        /\ rotation' = set_non_operational(rotation, LINES[i], stations)
        /\ installed' = [installed EXCEPT !.down = dict_set(@, LINES[i], stations)]
        /\ ret' = no_return
        /\ UNCHANGED <<stations_to_pair, now, session_state, pc, schedule_log>>

SetFixed ==
    \E i \in DOMAIN LINES, stations \in FixedLists :
        /\ \/ LINES[i] \in DOMAIN rotation.fixed_stations
           \/ stored_keys(rotation) < MaxCalls
        /\ rotation' = set_fixed(rotation, LINES[i], stations)
        /\ installed' = [installed EXCEPT !.fixed = dict_set(@, LINES[i], stations)]
        /\ ret' = no_return
        /\ UNCHANGED <<stations_to_pair, now, session_state, pc, schedule_log>>

GeneratePairs ==
    \E i \in DOMAIN LINES :
        /\ ret' = returned_pairs("generate_pairs", LINES[i],
                                 generate_pairs(rotation, LINES[i]))
        /\ UNCHANGED <<rotation, installed, stations_to_pair, now, session_state, pc,
                       schedule_log>>

NextRotation == SetNonOperational \/ SetFixed \/ GeneratePairs

SpecRotation == InitRotation /\ [][NextRotation]_vars

-----------------------------------------------------------------------------
(* Session state management.  st.session_state is a dict; a missing        *)
(* attribute raises AttributeError.                                        *)

line_set == Range(LINES)

\* f"non_op_{line}"
non_op_key(line) == "non_op_" \o line

widget_keys == {non_op_key(l) : l \in line_set} \cup {"accommodation_stations_c"}

\* {line: [] for line in LINES}
no_lines_down == [l \in line_set |-> <<>>]

\* if key in st.session_state: st.session_state[key] = []
clear_if_present(ss, key) ==
    IF key \in DOMAIN ss THEN dict_set(ss, key, <<>>) ELSE ss

\* if key not in st.session_state: st.session_state[key] = default
set_if_absent(ss, key, default) ==
    IF key \in DOMAIN ss THEN ss ELSE dict_set(ss, key, default)

RECURSIVE reset_widgets(_, _)
reset_widgets(ss, i) ==
    IF i > Len(LINES) THEN ss
    ELSE reset_widgets(clear_if_present(ss, non_op_key(LINES[i])), i + 1)

\* the daily reset without the reset of the widget values
reset_daily_keeps_widgets(ss, current_date_str) ==
    dict_set(dict_set(dict_set(dict_set(ss,
        "last_date", current_date_str),
        "non_operational", no_lines_down),
        "accommodation_c", <<>>),
        "has_accommodation_c", FALSE)

\* the body of the date test of initialize_session_state
reset_daily(ss, current_date_str) ==
    clear_if_present(
        reset_widgets(
            dict_set(dict_set(dict_set(dict_set(ss,
                "last_date", current_date_str),
                "non_operational", no_lines_down),
                "accommodation_c", <<>>),
                "has_accommodation_c", FALSE),
            1),
        "accommodation_stations_c")

\* 'last_date' not in st.session_state or st.session_state.last_date != current_date_str
is_new_day(ss, current_date_str) ==
    "last_date" \notin DOMAIN ss \/ ss["last_date"] # current_date_str

\* the three "ensure essential keys exist" tests
ensure_keys(ss) ==
    set_if_absent(
        set_if_absent(
            set_if_absent(ss, "non_operational", no_lines_down),
            "accommodation_c", <<>>),
        "has_accommodation_c", FALSE)

initialize_session_state(ss, t) ==
    LET current_date_str == strftime_Ymd(datetime_now(t))
    IN  ensure_keys(IF is_new_day(ss, current_date_str)
                    THEN reset_daily(ss, current_date_str)
                    ELSE ss)

RECURSIVE copy_widgets(_, _)
copy_widgets(ss, i) ==
    IF i > Len(LINES) THEN ss
    ELSE copy_widgets(
            [ss EXCEPT !["non_operational"] =
                dict_set(@, LINES[i], dict_get(ss, non_op_key(LINES[i])))],
            i + 1)

\* st.session_state.non_operational raises when the key is missing
update_raises(ss) == "non_operational" \notin DOMAIN ss

store_accommodation(ss, accommodated_stations) ==
    dict_set(dict_set(ss, "accommodation_c", accommodated_stations),
             "has_accommodation_c", Len(accommodated_stations) > 0)

\* update_session_state_on_submit, when it does not raise
update_session_state_on_submit(ss) ==
    store_accommodation(copy_widgets(ss, 1),
                        dict_get(ss, "accommodation_stations_c"))

-----------------------------------------------------------------------------
(* SpecSession: initialize_session_state and                               *)
(* update_session_state_on_submit called in any order while the clock      *)
(* advances and the user changes the multiselect widgets, which store      *)
(* their value in session_state under their key (lines 233-268).  At most  *)
(* MaxWidgets widget keys are stored.                                      *)

WidgetLists == { <<>>, <<7, 3>> }

\* a list of session_state that holds a station
holds_selection(ss) ==
    \/ \E k \in widget_keys \cap DOMAIN ss : ss[k] # <<>>
    \/ "accommodation_c" \in DOMAIN ss /\ ss["accommodation_c"] # <<>>
    \/ /\ "non_operational" \in DOMAIN ss
       /\ \E l \in DOMAIN ss["non_operational"] : ss["non_operational"][l] # <<>>

InitSession ==
    /\ session_state = empty_dict
    /\ now = 0
    /\ rotation = new_rotation
    /\ installed = nothing_installed
    /\ ret = no_return
    /\ stations_to_pair = <<>>
    /\ pc = "idle"
    /\ schedule_log = no_return

Tick ==
    /\ now < MaxNow
    /\ now' = now + 1
    /\ UNCHANGED <<rotation, installed, ret, stations_to_pair, session_state, pc,
                   schedule_log>>

SelectStations ==
    \E key \in widget_keys, stations \in WidgetLists :
        /\ \/ key \in DOMAIN session_state
           \/ Cardinality(widget_keys \cap DOMAIN session_state) < MaxWidgets
        /\ session_state' = dict_set(session_state, key, stations)
        /\ ret' = no_return
        /\ UNCHANGED <<rotation, installed, stations_to_pair, now, pc, schedule_log>>

InitializeSessionState ==
    /\ session_state' = initialize_session_state(session_state, now)
    /\ ret' = [op |-> "initialize_session_state",
               had_selection |-> holds_selection(session_state)]
    /\ UNCHANGED <<rotation, installed, stations_to_pair, now, pc, schedule_log>>

UpdateSessionStateOnSubmit ==
    /\ IF update_raises(session_state)
       THEN /\ ret' = [op |-> "update_session_state_on_submit", raised |-> TRUE]
            /\ UNCHANGED session_state
       ELSE /\ ret' = [op |-> "update_session_state_on_submit", raised |-> FALSE]
            /\ session_state' = update_session_state_on_submit(session_state)
    /\ UNCHANGED <<rotation, installed, stations_to_pair, now, pc, schedule_log>>

NextSession ==
    Tick \/ SelectStations \/ InitializeSessionState \/ UpdateSessionStateOnSubmit

SpecSession == InitSession /\ [][NextSession]_vars

-----------------------------------------------------------------------------
(* main.  One run of the script: initialize_session_state, the form, and,  *)
(* when the run was started by the submit button, the submit branch.  A    *)
(* multiselect with a key stores its value in session_state under that key *)
(* the first time it is drawn and keeps the stored value afterwards.  The  *)
(* HTML text itself is not modelled: the run ends with the three values    *)
(* generate_print_friendly_html is called with.                            *)

\* the "Line C (Unavailable)" multiselect, drawn only when a station is left for it
draw_non_op_c(ss) ==
    LET accommodated == Range(dict_get(ss, "accommodation_stations_c"))
        Free(st) == st \notin accommodated
        available_for_down_c == SelectSeq(STATIONS, Free)
        default_non_op_c == dict_get(ss["non_operational"], "C")
        available == Range(available_for_down_c)
        Selectable(st) == st \in available
    IN  IF available_for_down_c # <<>>
        THEN set_if_absent(ss, non_op_key("C"),
                           SelectSeq(default_non_op_c, Selectable))
        ELSE ss

draw_line(ss, line_key) ==
    IF line_key = "C"
    THEN draw_non_op_c(set_if_absent(ss, "accommodation_stations_c",
                                     dict_get(ss, "accommodation_c")))
    ELSE set_if_absent(ss, non_op_key(line_key),
                       dict_get(ss["non_operational"], line_key))

RECURSIVE draw_form(_, _)
draw_form(ss, i) ==
    IF i > Len(LINES) THEN ss
    ELSE draw_form(draw_line(ss, LINES[i]), i + 1)

RECURSIVE populate(_, _, _)
populate(self, ss, i) ==
    IF i > Len(LINES) THEN set_fixed(self, "C", ss["accommodation_c"])
    ELSE populate(
            set_non_operational(self, LINES[i],
                                dict_get(ss["non_operational"], LINES[i])),
            ss, i + 1)

\* the lists main hands to the setters
handed_over(ss) ==
    [down |-> [l \in line_set |-> dict_get(ss["non_operational"], l)],
     fixed |-> [l \in {"C"} |-> ss["accommodation_c"]]]

\* any(schedule_data.values())
any_pairs(schedule_data) ==
    \E i \in DOMAIN schedule_data : schedule_data[i][2] # <<>>

\* any(down_stations_for_html.values())
any_down(down_stations) == \E l \in DOMAIN down_stations : down_stations[l] # <<>>

\* the three ways the submit branch ends
outcome(has_any_pairs, has_any_down_stations) ==
    IF ~has_any_pairs /\ ~has_any_down_stations THEN "error"
    ELSE IF ~has_any_pairs THEN "report_down_only"
    ELSE "report"

\* the submit branch after generate_schedule has returned
submit_result(ss, self, generated, t) ==
    [session_state |-> ss,
     rotation |-> self,
     installed |-> handed_over(ss),
     ret |-> [op |-> "generate_schedule", at |-> t,
              date_str |-> generated.date_str,
              schedule_data |-> generated.schedule_data],
     pc |-> outcome(any_pairs(generated.schedule_data),
                    any_down(self.non_operational_stations))]

\* the submit branch once the rotation object is populated
submit_populated(ss, self, t) ==
    submit_result(ss, self, generate_schedule(self, t), t)

\* main after initialize_session_state and the form
main_drawn(ss, t, submitted) ==
    IF submitted
    THEN submit_populated(ss, populate(new_rotation, ss, 1), t)
    ELSE [session_state |-> ss,
          rotation |-> new_rotation,
          installed |-> nothing_installed,
          ret |-> no_return,
          pc |-> "form"]

main(ss, t, submitted) ==
    main_drawn(draw_form(initialize_session_state(ss, t), 1), t, submitted)

-----------------------------------------------------------------------------
(* SpecMain: the page is loaded, the user fills in the empty form, clicks  *)
(* the submit button (the on_click callback runs, then the script), and    *)
(* the clock advances.  A form is filled in as a whole while it is empty.  *)
(* Line C's unavailable list is drawn from the stations that are not       *)
(* accommodated (line 242).                                                *)

FormDownLists(line) ==
    IF line \in {"B", "C"} THEN { <<>>, <<20, 7>>, STATIONS }
    ELSE { <<>>, STATIONS }

FormFixedLists == { <<>>, <<18, 3>> }

Forms ==
    {form \in [down : [line_set -> UNION {FormDownLists(l) : l \in line_set}],
               accommodated : FormFixedLists] :
        /\ \A l \in line_set : form.down[l] \in FormDownLists(l)
        /\ Range(form.down["C"]) \cap Range(form.accommodated) = {}}

form_drawn(ss) == widget_keys \subseteq DOMAIN ss

form_empty(ss) == \A k \in widget_keys : ss[k] = <<>>

fill_form(ss, down, accommodated) ==
    [k \in DOMAIN ss |->
        IF k = "accommodation_stations_c" THEN accommodated
        ELSE IF \E l \in line_set : k = non_op_key(l)
        THEN down[CHOOSE l \in line_set : k = non_op_key(l)]
        ELSE ss[k]]

InitMain ==
    /\ session_state = empty_dict
    /\ now = 0
    /\ rotation = new_rotation
    /\ installed = nothing_installed
    /\ ret = no_return
    /\ stations_to_pair = <<>>
    /\ pc = "idle"
    /\ schedule_log = no_return

\* the state a run of main leaves
ran(run, log) ==
    /\ session_state' = run.session_state
    /\ rotation' = run.rotation
    /\ installed' = run.installed
    /\ ret' = run.ret
    /\ pc' = run.pc
    /\ schedule_log' = IF log /\ ret.op = "generate_schedule" /\ rotation = run.rotation
                       THEN ret ELSE no_return
    /\ UNCHANGED <<stations_to_pair, now>>

PageLoad ==
    /\ pc \in {"idle", "form", "error", "report_down_only", "report"}
    /\ ran(main(session_state, now, FALSE), FALSE)

FillForm ==
    /\ form_drawn(session_state)
    /\ form_empty(session_state)
    /\ \E form \in Forms :
            session_state' = fill_form(session_state, form.down, form.accommodated)
    /\ UNCHANGED <<rotation, installed, ret, stations_to_pair, now, pc, schedule_log>>

ClickSubmit ==
    /\ form_drawn(session_state)
    /\ ran(main(update_session_state_on_submit(session_state), now, TRUE), TRUE)

NextMain == PageLoad \/ FillForm \/ ClickSubmit \/ Tick

SpecMain == InitMain /\ [][NextMain]_vars

-----------------------------------------------------------------------------
(* Reading a pair string back: "a-b" with a and b in decimal.              *)

Digits == <<"0", "1", "2", "3", "4", "5", "6", "7", "8", "9">>

is_digit(c) == \E d \in DOMAIN Digits : Digits[d] = c

digit_value(c) == (CHOOSE d \in DOMAIN Digits : Digits[d] = c) - 1

char_at(str, i) == SubSeq(str, i, i)

\* a decimal numeral: digits only, at least one, no leading zero
is_numeral(str) ==
    /\ Len(str) >= 1
    /\ \A i \in 1..Len(str) : is_digit(char_at(str, i))
    /\ Len(str) > 1 => char_at(str, 1) # "0"

RECURSIVE numeral_value(_)
numeral_value(str) ==
    IF Len(str) = 0 THEN 0
    ELSE 10 * numeral_value(SubSeq(str, 1, Len(str) - 1))
            + digit_value(char_at(str, Len(str)))

dashes(str) == {i \in 1..Len(str) : char_at(str, i) = "-"}

is_pair(str) ==
    /\ Cardinality(dashes(str)) = 1
    /\ LET d == CHOOSE i \in dashes(str) : TRUE
       IN  /\ is_numeral(SubSeq(str, 1, d - 1))
           /\ is_numeral(SubSeq(str, d + 1, Len(str)))

low_of(str) ==
    numeral_value(SubSeq(str, 1, (CHOOSE i \in dashes(str) : TRUE) - 1))

high_of(str) ==
    numeral_value(SubSeq(str, (CHOOSE i \in dashes(str) : TRUE) + 1, Len(str)))

endpoints(str) == {low_of(str), high_of(str)}

\* the pairs of a list in which station s occurs
pairs_with(pairs, s) == {k \in DOMAIN pairs : s \in endpoints(pairs[k])}

\* the elements of a finite set of integers, smallest first
RECURSIVE ascending_list(_)
ascending_list(S) ==
    IF S = {} THEN <<>>
    ELSE LET least == CHOOSE x \in S : \A y \in S : x <= y
         IN  <<least>> \o ascending_list(S \ {least})

ceil_half(n) == (n + 1) \div 2

Universe == 1..NumStations

-----------------------------------------------------------------------------
(* The sets a generate_pairs call was made with, as the callers installed  *)
(* them.                                                                   *)

down_set(line) == Range(dict_get(installed.down, line))

fixed_set(line) == Range(dict_get(installed.fixed, line))

operational_set(line) == Universe \ down_set(line)

valid_fixed_set(line) ==
    IF line = "C" THEN fixed_set(line) \cap operational_set(line) ELSE {}

remaining_set(line) == operational_set(line) \ valid_fixed_set(line)

pairs_returned == ret.op = "generate_pairs"

-----------------------------------------------------------------------------
(* C1: on every line and for every installed nonOperational and fixed set, *)
(* the list generate_pairs returns covers the operational stations         *)
(* exactly: each operational station is in exactly one pair, no endpoint   *)
(* is a non-operational station, and the number of pairs is                *)
(* |validFixed| + ceil(|remaining| / 2).                                   *)
C1_PairsCoverOperational ==
    pairs_returned =>
        /\ \A k \in DOMAIN ret.pairs : is_pair(ret.pairs[k])
        /\ \A s \in operational_set(ret.line) :
                Cardinality(pairs_with(ret.pairs, s)) = 1
        /\ \A k \in DOMAIN ret.pairs :
                endpoints(ret.pairs[k]) \subseteq operational_set(ret.line)
        /\ Len(ret.pairs) = Cardinality(valid_fixed_set(ret.line))
                                + ceil_half(Cardinality(remaining_set(ret.line)))

\* line C with 3 down and 3, 18 fixed: 1 self-pair and 9 pairs of the other 18
C1_Witness ==
    /\ pairs_returned
    /\ ret.line = "C"
    /\ down_set("C") = {3, 21}
    /\ valid_fixed_set("C") = {18}
    /\ Len(ret.pairs) = 10

(* C3: on line C the result is the self-pairs of the stations of           *)
(* fixed /\ operational in ascending order, then                           *)
(* mirror_pair(operational - validFixed); a self-paired station is in no   *)
(* later pair.                                                             *)
C3_FixedSelfPairsFirst ==
    (pairs_returned /\ ret.line = "C") =>
        LET vf == valid_fixed_set("C")
            m == Cardinality(vf)
            self_paired == ascending_list(vf)
        IN  /\ Len(ret.pairs) >= m
            /\ \A k \in 1..m :
                    /\ is_pair(ret.pairs[k])
                    /\ low_of(ret.pairs[k]) = self_paired[k]
                    /\ high_of(ret.pairs[k]) = self_paired[k]
            /\ SubSeq(ret.pairs, m + 1, Len(ret.pairs))
                    = mirror_pair(ascending_list(remaining_set("C")))
            /\ \A k \in (m + 1)..Len(ret.pairs) :
                    endpoints(ret.pairs[k]) \cap vf = {}

\* the spec's scenario: fixed 18 and 3 (given unsorted), nothing down
C3_Witness ==
    /\ pairs_returned
    /\ ret.line = "C"
    /\ down_set("C") = {}
    /\ valid_fixed_set("C") = {3, 18}
    /\ Len(ret.pairs) = 11
    /\ ret.pairs[1] = "3-3"
    /\ ret.pairs[2] = "18-18"
    /\ ret.pairs[3] = "1-20"

(* C4: down-status wins over accommodation: on line C a station that is    *)
(* both fixed and non-operational is in no pair of the result, neither as  *)
(* a self-pair nor as an endpoint of a mirror pair.                        *)
C4_DownWinsOverFixed ==
    (pairs_returned /\ ret.line = "C") =>
        \A s \in fixed_set("C") \cap down_set("C") :
            \A k \in DOMAIN ret.pairs :
                /\ is_pair(ret.pairs[k])
                /\ s \notin endpoints(ret.pairs[k])

\* 3 is fixed and down: 18 is self-paired, the other 18 stations are mirror-paired
C4_Witness ==
    /\ pairs_returned
    /\ ret.line = "C"
    /\ fixed_set("C") \cap down_set("C") \cap Universe = {3}
    /\ Len(ret.pairs) = 10
    /\ ret.pairs[1] = "18-18"

\* the object with everything forgotten but one line's non-operational list
only_down_of(self, line) ==
    [non_operational_stations |->
        [l \in (DOMAIN self.non_operational_stations) \cap {line} |->
            self.non_operational_stations[l]],
     fixed_stations |-> empty_dict]

(* C5: on a line other than C the fixed set is not consulted: the result   *)
(* is mirror_pair of the line's operational stations, and it is the result *)
(* of the object that holds this line's non-operational list and nothing   *)
(* else: no fixed list of any line, no other line's non-operational list.  *)
C5_FixedIgnoredOffLineC ==
    (pairs_returned /\ ret.line # "C") =>
        /\ ret.pairs = mirror_pair(ascending_list(operational_set(ret.line)))
        /\ ret.pairs = generate_pairs(only_down_of(rotation, ret.line), ret.line)

\* a line other than C with a fixed list of its own stored, stations up
C5_Witness ==
    /\ pairs_returned
    /\ ret.line = "L"
    /\ fixed_set("L") = {3, 18, 21}
    /\ down_set("L") = {3, 21}
    /\ Len(ret.pairs) = 10

-----------------------------------------------------------------------------
(* C2: mirror_pair returns the outside-in mirror of the sorted,            *)
(* deduplicated input s: pair k joins the k-th smallest with the k-th      *)
(* largest, low endpoint first; an odd count ends with the self-pair of    *)
(* the middle station; ceil(n/2) pairs in strictly ascending order of the  *)
(* smaller endpoint; every element in exactly one pair.                    *)
C2_MirrorPairOutsideIn ==
    ret.op = "mirror_pair" =>
        LET S == Range(stations_to_pair)
            n == Cardinality(S)
            s == ascending_list(S)
            pairs == ret.pairs
        IN  /\ Len(pairs) = ceil_half(n)
            /\ \A k \in DOMAIN pairs : is_pair(pairs[k])
            /\ \A k \in 1..(n \div 2) :
                    /\ low_of(pairs[k]) = s[k]
                    /\ high_of(pairs[k]) = s[n + 1 - k]
                    /\ low_of(pairs[k]) < high_of(pairs[k])
            /\ n % 2 = 1 =>
                    /\ low_of(pairs[Len(pairs)]) = s[n \div 2 + 1]
                    /\ high_of(pairs[Len(pairs)]) = s[n \div 2 + 1]
            /\ \A j, k \in DOMAIN pairs :
                    j < k => low_of(pairs[j]) < low_of(pairs[k])
            /\ \A x \in S : Cardinality(pairs_with(pairs, x)) = 1
            /\ n = 0 => pairs = <<>>

\* an unsorted input with a repeated station and three distinct ones
C2_Witness ==
    /\ ret.op = "mirror_pair"
    /\ stations_to_pair = <<20, 2, 20, 9>>
    /\ ret.pairs = <<"2-20", "9-9">>

(* C8: mirror_pair depends only on the set of stations in its input: every *)
(* list with the same elements (permuted, with or without repeats) gives   *)
(* the identical result, and so does the sorted input.                     *)
C8_MirrorPairOrderIndependent ==
    ret.op = "mirror_pair" =>
        /\ \A other \in MirrorInputs :
                Range(other) = Range(stations_to_pair)
                    => mirror_pair(other) = ret.pairs
        /\ mirror_pair(sorted(stations_to_pair)) = ret.pairs

\* a descending input with a repeat: its sorted form is a different list
C8_Witness ==
    /\ ret.op = "mirror_pair"
    /\ stations_to_pair = <<20, 10, 10, 2>>
    /\ Len(ret.pairs) = 2

-----------------------------------------------------------------------------
\* the date of clock reading t as "YYYY-MM-DD", digit by digit
date_text_is(str, t) ==
    LET d == datetime_now(t)
    IN  /\ Len(str) = 10
        /\ char_at(str, 5) = "-"
        /\ char_at(str, 8) = "-"
        /\ \A i \in {1, 2, 3, 4, 6, 7, 9, 10} : is_digit(char_at(str, i))
        /\ numeral_value(SubSeq(str, 1, 4)) = d.year
        /\ numeral_value(SubSeq(str, 6, 7)) = d.month
        /\ numeral_value(SubSeq(str, 9, 10)) = d.day

stale_date(ss, t) ==
    "last_date" \notin DOMAIN ss \/ ~date_text_is(ss["last_date"], t)

\* what one initialize_session_state step must do
C9_step ==
    IF stale_date(session_state, now)
    THEN /\ date_text_is(session_state'["last_date"], now)
         /\ DOMAIN session_state'["non_operational"] = line_set
         /\ \A l \in line_set : session_state'["non_operational"][l] = <<>>
         /\ session_state'["accommodation_c"] = <<>>
         /\ session_state'["has_accommodation_c"] = FALSE
         /\ widget_keys \cap DOMAIN session_state'
                = widget_keys \cap DOMAIN session_state
         /\ \A k \in widget_keys \cap DOMAIN session_state :
                session_state'[k] = <<>>
         /\ ~holds_selection(session_state')
    ELSE session_state' = session_state

(* C9: the session configuration is reset exactly on a date boundary:      *)
(* initialize_session_state run with last_date absent or different from    *)
(* the current date sets last_date to the current date, empties            *)
(* non_operational for every line, accommodation_c and every existing      *)
(* widget value and clears has_accommodation_c, so that no selection of an *)
(* earlier date is left; run on the date of last_date it changes nothing.  *)
C9_ResetOnDateBoundary == [][InitializeSessionState => C9_step]_vars

\* a reset on a later date that found a selection of the day before
C9_Witness ==
    /\ ret.op = "initialize_session_state"
    /\ ret.had_selection
    /\ now = 1
    /\ date_text_is(session_state["last_date"], 1)
    /\ "non_op_B" \in DOMAIN session_state
    /\ ~holds_selection(session_state)

-----------------------------------------------------------------------------
(* The schedule the last submit generated.                                 *)

schedule_generated == ret.op = "generate_schedule"

pairs_of(line) == odict_get(ret.schedule_data, line)

all_down(line) == Universe \subseteq down_set(line)

\* the object with the non-operational lists of the given lines emptied
with_lines_up(self, lines) ==
    [self EXCEPT !.non_operational_stations =
        [l \in DOMAIN @ |-> IF l \in lines THEN <<>> ELSE @[l]]]

(* C6: two schedule generations with identical line configurations produce *)
(* identical outputs, date stamp and per-line pair lists, whenever they    *)
(* run: the date stamp is a date the caller supplies, not the wall clock.  *)
C6_GenerationsIdentical ==
    (schedule_generated /\ schedule_log.op = "generate_schedule") =>
        /\ ret.date_str = schedule_log.date_str
        /\ ret.schedule_data = schedule_log.schedule_data

(* C7: a line without operational stations is not an error: when a line's  *)
(* non-operational list covers 1..20, generate_pairs returns the empty     *)
(* list for it, and generate_schedule returns an entry for every line in   *)
(* the order B, C, L, M, N, O, the empty list for that line, and for every *)
(* other line what it returns when the covered lines are fully up.         *)
C7_AllDownLineIsEmpty ==
    schedule_generated =>
        LET covered == {l \in line_set : all_down(l)}
        IN  /\ odict_keys(ret.schedule_data) = LINES
            /\ \A l \in covered :
                    /\ generate_pairs(rotation, l) = <<>>
                    /\ pairs_of(l) = <<>>
            /\ \A l \in line_set \ covered :
                    /\ pairs_of(l) # <<>>
                    /\ pairs_of(l) = generate_pairs(with_lines_up(rotation, covered), l)

\* line B fully down, line C with two stations down, the others fully up
C7_Witness ==
    /\ schedule_generated
    /\ down_set("B") = Universe
    /\ down_set("C") = {7, 20}
    /\ pairs_of("B") = <<>>
    /\ Len(pairs_of("C")) = 9
    /\ Len(pairs_of("L")) = 10

(* C10: the error branch of main is not reached: after a submit, with      *)
(* set_non_operational called for every line, a line with an empty pair    *)
(* list has all 20 stations non-operational, so it is never the case that  *)
(* no line has pairs and no line has down stations; when no line has       *)
(* pairs the report with the down stations is produced.                    *)
C10_ErrorBranchUnreachable ==
    /\ pc # "error"
    /\ schedule_generated =>
        /\ DOMAIN rotation.non_operational_stations = line_set
        /\ \A l \in line_set :
                pairs_of(l) = <<>> =>
                    /\ all_down(l)
                    /\ Cardinality(down_set(l) \cap Universe) = NumStations
                    /\ rotation.non_operational_stations[l] # <<>>
        /\ ~(\A l \in line_set :
                pairs_of(l) = <<>> /\ rotation.non_operational_stations[l] = <<>>)
        /\ (\A l \in line_set : pairs_of(l) = <<>>) => pc = "report_down_only"

\* a submit with every station of every line down
C10_Witness ==
    /\ schedule_generated
    /\ pc = "report_down_only"
    /\ \A l \in line_set : down_set(l) = Universe /\ pairs_of(l) = <<>>

====
